---- MODULE Spec2Model ----
(***************************************************************************)
(* Model of udp-test/integration_test.py: the deployment-and-verification *)
(* orchestrator of tunnox-core.  One control thread walks main(); every   *)
(* external call (local command, ssh command, file I/O, database call,    *)
(* sleep) is one step whose outcome is chosen by the environment.         *)
(***************************************************************************)
EXTENDS Integers, Sequences, FiniteSets, TLC

\* Number of SIGINTs the user may deliver during one run.
MaxInterrupts == 2

\* total_rounds with an off-by-one: one round fewer.
total_rounds_OffByOne == 3 - 1

\* run_mysql_tests: total_rounds = 3
total_rounds == 3

\* Exit codes returned by main().
EXIT_OK == 0
EXIT_FAIL == 1
EXIT_INTERRUPT == 130
\* main() has not returned yet.
Running == -1

VARIABLES
    pc,              \* position of the control thread
    idx,             \* index in PhaseOrder of the next phase main() calls
    exitCode,        \* value main() returned (Running before that)
    invoked,         \* sequence of phases main() has called so far
    active,          \* phases called and neither returned nor unwound
    returned,        \* phases that returned normally
    raisedIn,        \* where the Exception that reached main's handler came from
    failedIn,        \* phases in which an external operation failed
                     \* (non-zero exit, timeout or error)
    interrupts,      \* SIGINTs delivered so far
    invokedAtInt,    \* value of invoked when the first SIGINT was delivered
    orphans,         \* a child of a timed-out command is still running
    trace,           \* what the run did and printed since the last heading
                     \* (log_header of a phase, section line of show_logs):
                     \* command-text log lines, commands started, sleeps,
                     \* database connects, messages
    elapsedReported, \* "总耗时" has been logged
    i,               \* loop variable of run_mysql_tests
    rounds,          \* results of test_mysql_connection, in call order
    testPassed,      \* value returned by run_mysql_tests ("none" before)
    openConns,       \* rounds whose connection is open
    diagRuns,        \* number of calls of show_logs
    vlog,            \* verification events: connect, ok, fail, cooldown, show_logs
    probeResult,     \* local 'result' of test_mysql_connection: the row the
                     \* last 'SELECT 1' returned ("none" before it)
    oldServer,       \* a tunnox-server process of an earlier run exists remotely
    oldClients,      \* tunnox client processes of an earlier run exist locally
    hadServer,       \* oldServer when the run started
    hadClients,      \* oldClients when the run started
    cfg,             \* the loaded config.yaml: per role the client id and
                     \* secret key, and the tunnel server's address and port
    files,           \* per role the client-config.yaml: its content and who
                     \* wrote it, in order
    small_ok,        \* test_mysql_large.py: value test_mysql_small returned
    large_ok,        \* test_mysql_large.py: value test_mysql_large returned
    stopOk,          \* value returned by stop_service_with_timeout ("none" before)
    result           \* local 'result' of stop_processes: pgrep printed something

phaseVars == <<idx, invoked, active, returned>>
recVars == <<failedIn, interrupts, invokedAtInt, orphans, trace>>
verifyVars == <<i, rounds, testPassed, openConns, diagRuns, vlog, probeResult>>
stopVars == <<oldServer, oldClients, hadServer, hadClients, stopOk, result>>
endVars == <<exitCode, raisedIn, elapsedReported>>
genVars == <<cfg, files>>
probeVars == <<small_ok, large_ok>>
vars == <<pc, idx, exitCode, invoked, active, returned, raisedIn, failedIn,
          interrupts, invokedAtInt, orphans, trace, elapsedReported, i,
          rounds, testPassed, openConns, diagRuns, vlog, probeResult, oldServer,
          oldClients, hadServer, hadClients, stopOk, result, cfg, files,
          small_ok, large_ok>>

----------------------------------------------------------------------------
\* main() with the calls of lines 520 and 523 exchanged.
PhaseOrder_Swapped ==
    <<"StopProcesses", "Build", "DeployServer", "GenerateConfigs",
      "DeployClients", "StartService", "StartClients", "Verify", "Report">>

\* main(): the calls of lines 511-532 and the report of lines 535-544.
PhaseOrder ==
    <<"StopProcesses", "Build", "DeployServer", "DeployClients",
      "GenerateConfigs", "StartService", "StartClients", "Verify", "Report">>

\* First step of each phase.
Entry(p) ==
    CASE p = "StopProcesses"   -> "sp_graceful"
      [] p = "Build"           -> "build_server"
      [] p = "DeployServer"    -> "ds_scp"
      [] p = "DeployClients"   -> "dc_listen"
      [] p = "GenerateConfigs" -> "gc_listen"
      [] p = "StartService"    -> "ss_start"
      [] p = "StartClients"    -> "sc_target"
      [] p = "Verify"          -> "rm_loop"
      [] p = "Report"          -> "report"

\* Outcomes of a subprocess: exit 0, exit non-zero, timeout, SIGINT while
\* waiting for it.
CmdOutcomes == {"ok", "nonzero", "timeout", "interrupt"}
\* Outcomes of a file or database operation, and of a sleep.
IoOutcomes == {"ok", "error", "interrupt"}
SleepOutcomes == {"ok", "interrupt"}

\* A SIGINT can be delivered only while the user has some left.
Allowed(out) == out = "interrupt" => interrupts < MaxInterrupts

\* run_command that does not pass 'check' on to subprocess.run.
RunCommand_NoCheck(check, out) ==
    CASE out = "ok"        -> "return"
      [] out = "nonzero"   -> "return"
      [] out = "timeout"   -> "Exception"
      [] out = "interrupt" -> "KeyboardInterrupt"

\* run_command: what the call does for the outcome of the subprocess.
\* subprocess.run raises TimeoutExpired on timeout whatever 'check' is, and
\* CalledProcessError on a non-zero exit only when check is set; both are
\* re-raised.  KeyboardInterrupt is not caught here.
RunCommand(check, out) ==
    CASE out = "ok"        -> "return"
      [] out = "nonzero"   -> IF check THEN "Exception" ELSE "return"
      [] out = "timeout"   -> "Exception"
      [] out = "interrupt" -> "KeyboardInterrupt"

\* ssh_command: run_command with capture_output and the caller's check.
SshCommand(check, out) == RunCommand(check, out)

\* A file or database operation: an error is a subclass of Exception.
IoCall(out) ==
    CASE out = "ok"        -> "return"
      [] out = "error"     -> "Exception"
      [] out = "interrupt" -> "KeyboardInterrupt"

\* Where control goes: on, or to the except clause of main() that matches.
\* The try/except of stop_processes (171-173, 189-191) logs and re-raises.
Flow(res, next) ==
    CASE res = "return"            -> next
      [] res = "Exception"         -> "except_exception"
      [] res = "KeyboardInterrupt" -> "except_kbd"

\* Entries of the trace.
LogCmd(name) == [k |-> "log", what |-> name]     \* log_info("执行命令: ...")
Exec(name) == [k |-> "exec", what |-> name]      \* subprocess.run started
Slept(secs) == [k |-> "sleep", what |-> secs]    \* time.sleep(secs)
Db(name) == [k |-> "db", what |-> name]          \* a pymysql call
Msg(name) == [k |-> "msg", what |-> name]        \* any other log line

\* run_command, lines 69-83: the command text is logged, then the command
\* is run.
CmdEvents(name) == <<LogCmd(name), Exec(name)>>

\* subprocess.run called directly (stop_service_with_timeout, 129-139): the
\* line logged before it does not carry the command.
DirectEvents(name) == <<Msg("try_graceful_stop"), Exec(name)>>

\* Bookkeeping common to every external operation.  On a timeout
\* subprocess.run kills the process it started (the shell of shell=True);
\* whether a child of that shell lives on is not in the script's hands.
RecordOutcome(out) ==
    /\ failedIn' = IF out \in {"nonzero", "timeout", "error"}
                   THEN failedIn \cup active ELSE failedIn
    /\ interrupts' = IF out = "interrupt" THEN interrupts + 1 ELSE interrupts
    /\ invokedAtInt' = IF out = "interrupt" /\ interrupts = 0
                       THEN invoked ELSE invokedAtInt
    /\ \E left \in BOOLEAN :
          orphans' = (orphans \/ (out = "timeout" /\ left))

\* An external operation under the current heading.
Record(out, events) ==
    /\ RecordOutcome(out)
    /\ trace' = trace \o events

\* run_command without timeout=: a command that hangs never returns.
SimpleCmd_NoTimeout(at, name, check, next) ==
    /\ pc = at
    /\ \E out \in CmdOutcomes :
        /\ Allowed(out)
        /\ Record(out, CmdEvents(name))
        /\ pc' = IF out = "timeout" THEN "hung"
                 ELSE Flow(RunCommand(check, out), next)
    /\ UNCHANGED <<phaseVars, verifyVars, stopVars, endVars,
                   genVars, probeVars>>

\* A command run by run_command whose outcome changes nothing but the
\* control flow.
SimpleCmd(at, name, check, next) ==
    /\ pc = at
    /\ \E out \in CmdOutcomes :
        /\ Allowed(out)
        /\ Record(out, CmdEvents(name))
        /\ pc' = Flow(RunCommand(check, out), next)
    /\ UNCHANGED <<phaseVars, verifyVars, stopVars, endVars,
                   genVars, probeVars>>

\* time.sleep(secs), then the log lines 'post': it ends, or a SIGINT ends it.
Sleep(at, secs, post, next) ==
    /\ pc = at
    /\ \E out \in SleepOutcomes :
        /\ Allowed(out)
        /\ Record(out, <<Slept(secs)>> \o (IF out = "ok" THEN post ELSE <<>>))
        /\ pc' = Flow(IoCall(out), next)
    /\ UNCHANGED <<phaseVars, verifyVars, stopVars, endVars,
                   genVars, probeVars>>

\* A file operation whose outcome changes nothing but the control flow.
SimpleIo(at, next) ==
    /\ pc = at
    /\ \E out \in IoOutcomes :
        /\ Allowed(out)
        /\ Record(out, <<>>)
        /\ pc' = Flow(IoCall(out), next)
    /\ UNCHANGED <<phaseVars, verifyVars, stopVars, endVars,
                   genVars, probeVars>>

----------------------------------------------------------------------------
\* Client configuration files.

Roles == {"listen", "target"}
\* Values config.yaml may hold: numeric client ids and port, strings for the
\* secret keys and the server's domain.
ClientIds == {10000001, 10000002}
SecretKeys == {"key-a", "key-b"}
ServerAddrs == {"gw.example.net", "10.0.0.7"}
ServerPorts == {8000, 9000}
Configs ==
    [listen : [id : ClientIds, secret : SecretKeys],
     target : [id : ClientIds, secret : SecretKeys],
     addr : ServerAddrs, port : ServerPorts]
\* The configuration of the runs of the orchestrator.
DefaultConfig ==
    [listen |-> [id |-> 10000001, secret |-> "key-a"],
     target |-> [id |-> 10000002, secret |-> "key-b"],
     addr |-> "gw.example.net", port |-> 8000]

\* A replacement field of an f-string: str() of the YAML value.
FormatInt(n) == ToString(n)

\* integration_test.py, generate_client_config, lines 257-270: the f-string.
ConfigContent(client_id, secret_key, server_addr, server_port) ==
    "# Tunnox Client Configuration\n"
    \o "client_id: " \o FormatInt(client_id) \o "\n"
    \o "auth_token: \"" \o secret_key \o "\"\n"
    \o "anonymous: false\n"
    \o "\n"
    \o "server:\n"
    \o "  protocol: udp\n"
    \o "  address: " \o server_addr \o ":" \o FormatInt(server_port) \o "\n"
    \o "\n"
    \o "log:\n"
    \o "  level: info\n"
    \o "  format: text\n"
    \o "  output: file\n"

\* generate_configs.py, generate_client_config, lines 13-26: the f-string.
StandaloneConfigContent(client_id, secret_key, server_addr, server_port) ==
    "# Tunnox Client Configuration\n"
    \o "client_id: " \o FormatInt(client_id) \o "\n"
    \o "auth_token: \"" \o secret_key \o "\"\n"
    \o "anonymous: false\n"
    \o "\n"
    \o "server:\n"
    \o "  protocol: udp\n"
    \o "  address: " \o server_addr \o ":" \o FormatInt(server_port) \o "\n"
    \o "\n"
    \o "log:\n"
    \o "  level: info\n"
    \o "  format: text\n"
    \o "  output: file\n"

\* A file opened in append mode: the new content follows the old.
WriteFile_Append(old, content) == old \o content

\* open(config_file, 'w') and f.write(config_content): the file is
\* truncated, then holds what was written.
WriteFile(old, content) == content

\* One call of generate_client_config by generator 'who' on file f: the
\* file is written, or open() raises and the content stays as it was.
Generated(f, content, who, out) ==
    IF out = "ok"
    THEN [content |-> WriteFile(f.content, content), by |-> Append(f.by, who)]
    ELSE [f EXCEPT !.by = Append(@, "failed")]

\* No client-config.yaml has been written.
NoFiles == [r \in Roles |-> [content |-> "", by |-> <<>>]]

----------------------------------------------------------------------------
Init ==
    /\ pc = "load_config"
    /\ idx = 1
    /\ exitCode = Running
    /\ invoked = <<>>
    /\ active = {}
    /\ returned = {}
    /\ raisedIn = "none"
    /\ failedIn = {}
    /\ interrupts = 0
    /\ invokedAtInt = <<>>
    /\ orphans = FALSE
    /\ trace = <<>>
    /\ elapsedReported = FALSE
    /\ i = 0
    /\ rounds = <<>>
    /\ testPassed = "none"
    /\ openConns = {}
    /\ diagRuns = 0
    /\ vlog = <<>>
    /\ probeResult = "none"
    /\ oldServer \in BOOLEAN
    /\ oldClients \in BOOLEAN
    /\ hadServer = oldServer
    /\ hadClients = oldClients
    /\ stopOk = "none"
    /\ result = FALSE
    /\ cfg = DefaultConfig
    /\ files = NoFiles
    /\ small_ok = "none"
    /\ large_ok = "none"

----------------------------------------------------------------------------
\* main, lines 498-508: record start_time, print the banner, load the config.
LoadConfig == SimpleIo("load_config", "main")

\* main, lines 511-532: call the next phase.  The trace starts afresh with
\* the log_header of the phase.
MainInvoke ==
    /\ pc = "main"
    /\ idx <= Len(PhaseOrder)
    /\ invoked' = Append(invoked, PhaseOrder[idx])
    /\ active' = active \cup {PhaseOrder[idx]}
    /\ trace' = <<>>
    /\ pc' = Entry(PhaseOrder[idx])
    /\ UNCHANGED <<idx, returned, failedIn, interrupts, invokedAtInt, orphans,
                   verifyVars, stopVars, endVars,
                   genVars, probeVars>>

\* A phase function returns to main.
PhaseReturn ==
    /\ pc = "ret"
    /\ returned' = returned \cup active
    /\ active' = {}
    /\ idx' = idx + 1
    /\ pc' = "main"
    /\ UNCHANGED <<invoked, recVars, verifyVars, stopVars, endVars,
                   genVars, probeVars>>

\* The report without the "总耗时" line.
Report_NoElapsed ==
    /\ pc = "report"
    /\ exitCode' = IF testPassed = "True" THEN EXIT_OK ELSE EXIT_FAIL
    /\ returned' = returned \cup active
    /\ active' = {}
    /\ pc' = "done"
    /\ UNCHANGED <<idx, invoked, raisedIn, elapsedReported, recVars,
                   verifyVars, stopVars,
                   genVars, probeVars>>

\* main, lines 535-544: log the elapsed time and return 0 or 1.
Report ==
    /\ pc = "report"
    /\ elapsedReported' = TRUE
    /\ exitCode' = IF testPassed = "True" THEN EXIT_OK ELSE EXIT_FAIL
    /\ returned' = returned \cup active
    /\ active' = {}
    /\ pc' = "done"
    /\ UNCHANGED <<idx, invoked, raisedIn, recVars, verifyVars, stopVars,
                   genVars, probeVars>>

\* main, lines 546-548: except KeyboardInterrupt.
ExceptKeyboardInterrupt ==
    /\ pc = "except_kbd"
    /\ exitCode' = EXIT_INTERRUPT
    /\ active' = {}
    /\ pc' = "done"
    /\ UNCHANGED <<idx, invoked, returned, raisedIn, elapsedReported,
                   recVars, verifyVars, stopVars,
                   genVars, probeVars>>

\* main, lines 549-553: except Exception.
ExceptException ==
    /\ pc = "except_exception"
    /\ exitCode' = EXIT_FAIL
    /\ raisedIn' = IF active = {} THEN "load_config"
                   ELSE CHOOSE p \in active : TRUE
    /\ active' = {}
    /\ pc' = "done"
    /\ UNCHANGED <<idx, invoked, returned, elapsedReported, recVars,
                   verifyVars, stopVars,
                   genVars, probeVars>>

----------------------------------------------------------------------------
\* StopProcesses: stop_processes (154-191) and stop_service_with_timeout.

\* The graceful stop without the escalation of lines 142-146: after the
\* timeout the function goes on as if the stop had returned.
StopGraceful_NoEscalation ==
    /\ pc = "sp_graceful"
    /\ \E out \in CmdOutcomes :
        /\ Allowed(out)
        /\ Record(out, DirectEvents("systemctl_stop")
                       \o (IF out = "timeout" THEN <<Msg("graceful_timeout")>>
                           ELSE <<>>))
        /\ oldServer' = IF out = "ok" THEN FALSE ELSE oldServer
        /\ stopOk' = IF out = "interrupt" THEN stopOk ELSE "True"
        /\ pc' = IF out = "interrupt" THEN "except_kbd" ELSE "sp_pgrep"
    /\ UNCHANGED <<phaseVars, verifyVars, endVars, oldClients, hadServer,
                   hadClients, result,
                   genVars, probeVars>>

\* The graceful stop run without timeout=: a stop that hangs never returns.
StopGraceful_NoTimeout ==
    /\ pc = "sp_graceful"
    /\ \E out \in CmdOutcomes :
        /\ Allowed(out)
        /\ Record(out, DirectEvents("systemctl_stop"))
        /\ oldServer' = IF out = "ok" THEN FALSE ELSE oldServer
        /\ stopOk' = IF out \in {"ok", "nonzero"} THEN "True" ELSE stopOk
        /\ pc' = CASE out \in {"ok", "nonzero"} -> "sp_pgrep"
                   [] out = "timeout"           -> "hung"
                   [] out = "interrupt"         -> "except_kbd"
    /\ UNCHANGED <<phaseVars, verifyVars, endVars, oldClients, hadServer,
                   hadClients, result,
                   genVars, probeVars>>

\* The graceful stop run with check=True: a non-zero exit status raises
\* CalledProcessError, which nothing in stop_service_with_timeout catches.
StopGraceful_NonzeroFails ==
    /\ pc = "sp_graceful"
    /\ \E out \in CmdOutcomes :
        /\ Allowed(out)
        /\ Record(out, DirectEvents("systemctl_stop")
                       \o (CASE out = "ok" -> <<Msg("graceful_stopped")>>
                             [] out = "nonzero" -> <<Msg("graceful_failed")>>
                             [] out = "timeout" -> <<Msg("graceful_timeout")>>
                             [] OTHER -> <<>>))
        /\ oldServer' = IF out = "ok" THEN FALSE ELSE oldServer
        /\ stopOk' = IF out = "ok" THEN "True" ELSE stopOk
        /\ pc' = CASE out = "ok"        -> "sp_pgrep"
                   [] out = "nonzero"   -> "except_exception"
                   [] out = "timeout"   -> "sp_forcekill"
                   [] out = "interrupt" -> "except_kbd"
    /\ UNCHANGED <<phaseVars, verifyVars, endVars, oldClients, hadServer,
                   hadClients, result, genVars, probeVars>>

\* stop_service_with_timeout, lines 129-143: 'systemctl stop' over ssh run by
\* subprocess.run with timeout=10 and no check.  Any return within the
\* timeout is "graceful" and the function returns True.
StopGraceful ==
    /\ pc = "sp_graceful"
    /\ \E out \in CmdOutcomes :
        /\ Allowed(out)
        /\ Record(out, DirectEvents("systemctl_stop")
                       \o (CASE out \in {"ok", "nonzero"} ->
                                    <<Msg("graceful_stopped")>>
                             [] out = "timeout" -> <<Msg("graceful_timeout")>>
                             [] OTHER -> <<>>))
        /\ oldServer' = IF out = "ok" THEN FALSE ELSE oldServer
        /\ stopOk' = IF out \in {"ok", "nonzero"} THEN "True" ELSE stopOk
        /\ pc' = CASE out \in {"ok", "nonzero"} -> "sp_pgrep"
                   [] out = "timeout"           -> "sp_forcekill"
                   [] out = "interrupt"         -> "except_kbd"
    /\ UNCHANGED <<phaseVars, verifyVars, endVars, oldClients, hadServer,
                   hadClients, result,
                   genVars, probeVars>>

\* stop_service_with_timeout, lines 144-146 and 150-152: pkill -9 over ssh
\* (check=False); an Exception of the ssh command gives return False.
\* stop_processes (line 161) drops the returned value.
StopForceKill ==
    /\ pc = "sp_forcekill"
    /\ \E out \in CmdOutcomes :
        /\ Allowed(out)
        /\ Record(out, CmdEvents("pkill9_remote")
                       \o (IF SshCommand(FALSE, out) = "Exception"
                           THEN <<Msg("force_stop_failed")>> ELSE <<>>))
        /\ oldServer' = IF out = "ok" THEN FALSE ELSE oldServer
        /\ stopOk' = IF SshCommand(FALSE, out) = "Exception"
                     THEN "False" ELSE stopOk
        /\ pc' = CASE SshCommand(FALSE, out) = "return"    -> "sp_forcekill_sleep"
                   [] SshCommand(FALSE, out) = "Exception" -> "sp_pgrep"
                   [] OTHER                                -> "except_kbd"
    /\ UNCHANGED <<phaseVars, verifyVars, endVars, oldClients, hadServer,
                   hadClients, result,
                   genVars, probeVars>>

\* stop_service_with_timeout, lines 147-149: sleep(1), return True.
StopForceKillSettle ==
    /\ pc = "sp_forcekill_sleep"
    /\ \E out \in SleepOutcomes :
        /\ Allowed(out)
        /\ Record(out, <<Slept("1")>> \o (IF out = "ok"
                                          THEN <<Msg("force_stopped")>>
                                          ELSE <<>>))
        /\ stopOk' = IF out = "ok" THEN "True" ELSE stopOk
        /\ pc' = Flow(IoCall(out), "sp_pgrep")
    /\ UNCHANGED <<phaseVars, verifyVars, endVars, oldServer, oldClients,
                   hadServer, hadClients, result,
                   genVars, probeVars>>

\* What 'pgrep -f pattern || true' prints when it exits 0: the pids of the
\* processes whose command line matches.  The shell that runs the command
\* line has the pattern in its own command line, so the output can be
\* non-empty although no tunnox process exists.
PgrepFinds(exists) == {exists, TRUE}

\* A presence query whose failure counts as "something may be left".
StopPgrep_FailureKills ==
    /\ pc = "sp_pgrep"
    /\ \E out \in CmdOutcomes :
        /\ Allowed(out)
        /\ result' \in (CASE out = "ok" -> PgrepFinds(oldServer)
                           [] out = "nonzero" -> {TRUE}
                           [] OTHER -> {FALSE})
        /\ Record(out, CmdEvents("pgrep_remote")
                       \o (CASE SshCommand(FALSE, out) # "return" -> <<>>
                             [] result' -> <<Msg("remote_leftover")>>
                             [] OTHER -> <<Msg("remote_stopped")>>))
        /\ pc' = Flow(SshCommand(FALSE, out),
                      IF result' THEN "sp_kill2" ELSE "sp_local_pkill")
    /\ UNCHANGED <<phaseVars, verifyVars, endVars, oldServer, oldClients,
                   hadServer, hadClients, stopOk, genVars, probeVars>>

\* stop_processes, lines 164-166 and 170: pgrep over ssh (check=False);
\* 'result' is the captured stdout, empty when the command printed nothing.
StopPgrep ==
    /\ pc = "sp_pgrep"
    /\ \E out \in CmdOutcomes :
        /\ Allowed(out)
        /\ result' \in (IF out = "ok" THEN PgrepFinds(oldServer) ELSE {FALSE})
        /\ Record(out, CmdEvents("pgrep_remote")
                       \o (CASE SshCommand(FALSE, out) # "return" -> <<>>
                             [] result' -> <<Msg("remote_leftover")>>
                             [] OTHER -> <<Msg("remote_stopped")>>))
        /\ pc' = Flow(SshCommand(FALSE, out),
                      IF result' THEN "sp_kill2" ELSE "sp_local_pkill")
    /\ UNCHANGED <<phaseVars, verifyVars, endVars, oldServer, oldClients,
                   hadServer, hadClients, stopOk,
                   genVars, probeVars>>

\* stop_processes, line 167: second pkill -9 over ssh (check=False).
StopKillAgain ==
    /\ pc = "sp_kill2"
    /\ \E out \in CmdOutcomes :
        /\ Allowed(out)
        /\ Record(out, CmdEvents("pkill9_remote"))
        /\ oldServer' = IF out = "ok" THEN FALSE ELSE oldServer
        /\ pc' = Flow(SshCommand(FALSE, out), "sp_kill2_sleep")
    /\ UNCHANGED <<phaseVars, verifyVars, endVars, oldClients, hadServer,
                   hadClients, stopOk, result,
                   genVars, probeVars>>

\* stop_processes, lines 168-170: sleep(1), "远程服务器进程已停止".
StopKillAgainSettle ==
    Sleep("sp_kill2_sleep", "1", <<Msg("remote_stopped")>>, "sp_local_pkill")

\* stop_processes, line 178: local pkill (SIGTERM, check=False, timeout=10).
\* A client may survive SIGTERM.
StopLocalPkill ==
    /\ pc = "sp_local_pkill"
    /\ \E out \in CmdOutcomes :
        /\ Allowed(out)
        /\ Record(out, CmdEvents("pkill_local"))
        /\ oldClients' \in (IF out = "ok" THEN {FALSE, oldClients}
                            ELSE {oldClients})
        /\ pc' = Flow(RunCommand(FALSE, out), "sp_local_sleep")
    /\ UNCHANGED <<phaseVars, verifyVars, endVars, oldServer, hadServer,
                   hadClients, stopOk, result,
                   genVars, probeVars>>

\* stop_processes, line 179: sleep(2).
StopLocalPkillSettle == Sleep("sp_local_sleep", "2", <<>>, "sp_local_pgrep")

\* stop_processes, lines 182-184 and 188: local pgrep (check=False,
\* timeout=5).
StopLocalPgrep ==
    /\ pc = "sp_local_pgrep"
    /\ \E out \in CmdOutcomes :
        /\ Allowed(out)
        /\ result' \in (IF out = "ok" THEN PgrepFinds(oldClients) ELSE {FALSE})
        /\ Record(out, CmdEvents("pgrep_local")
                       \o (CASE RunCommand(FALSE, out) # "return" -> <<>>
                             [] result' -> <<Msg("local_leftover")>>
                             [] OTHER -> <<Msg("local_stopped")>>))
        /\ pc' = Flow(RunCommand(FALSE, out),
                      IF result' THEN "sp_local_kill2" ELSE "ret")
    /\ UNCHANGED <<phaseVars, verifyVars, endVars, oldServer, oldClients,
                   hadServer, hadClients, stopOk,
                   genVars, probeVars>>

\* stop_processes, line 185: local pkill -9 (check=False, timeout=5).
StopLocalKillAgain ==
    /\ pc = "sp_local_kill2"
    /\ \E out \in CmdOutcomes :
        /\ Allowed(out)
        /\ Record(out, CmdEvents("pkill9_local"))
        /\ oldClients' = IF out = "ok" THEN FALSE ELSE oldClients
        /\ pc' = Flow(RunCommand(FALSE, out), "sp_local_kill2_sleep")
    /\ UNCHANGED <<phaseVars, verifyVars, endVars, oldServer, hadServer,
                   hadClients, stopOk, result,
                   genVars, probeVars>>

\* stop_processes, lines 186-188: sleep(1), "本地客户端进程已停止".
StopLocalKillAgainSettle ==
    Sleep("sp_local_kill2_sleep", "1", <<Msg("local_stopped")>>, "ret")

----------------------------------------------------------------------------
\* Build: build_binaries (193-205), two 'go build' with check=True.
BuildServer == SimpleCmd("build_server", "go_build_server", TRUE, "build_client")
BuildClient == SimpleCmd("build_client", "go_build_client", TRUE, "ret")

\* DeployServer: deploy_server (207-233), scp then chmod over ssh.
DeployScp == SimpleCmd("ds_scp", "scp_server", TRUE, "ds_chmod")
DeployChmod == SimpleCmd("ds_chmod", "chmod_server", TRUE, "ret")

\* DeployClients: deploy_clients (235-253), mkdir and cp for each role.
DeployListen == SimpleCmd("dc_listen", "cp_listen_client", TRUE, "dc_target")
DeployTarget == SimpleCmd("dc_target", "cp_target_client", TRUE, "ret")

\* generate_client_config (255-276) called for one role: the file is
\* written, or open() raises and the file stays as it was.
GenerateFile(at, role, next) ==
    /\ pc = at
    /\ \E out \in IoOutcomes :
        /\ Allowed(out)
        /\ Record(out, <<>>)
        /\ files' = [files EXCEPT ![role] =
                Generated(@, ConfigContent(cfg[role].id, cfg[role].secret,
                                           cfg.addr, cfg.port),
                          "orchestrator", out)]
        /\ pc' = Flow(IoCall(out), next)
    /\ UNCHANGED <<phaseVars, verifyVars, stopVars, endVars, cfg, probeVars>>

\* GenerateConfigs: generate_configs (278-304), one file written per role.
GenerateListen == GenerateFile("gc_listen", "listen", "gc_target")
GenerateTarget == GenerateFile("gc_target", "target", "ret")

----------------------------------------------------------------------------
\* StartService: start_server (306-325).

\* lines 310-311: systemctl start over ssh (check=True).
StartServer == SimpleCmd("ss_start", "systemctl_start", TRUE, "ss_settle")

\* line 312: sleep(3).
StartServerSettle == Sleep("ss_settle", "3", <<>>, "ss_status")

\* start_server that raises as soon as the status is not "active", without
\* fetching the journal.
StartStatus_NoJournal ==
    /\ pc = "ss_status"
    /\ \E out \in CmdOutcomes :
        /\ Allowed(out)
        /\ Record(out, CmdEvents("systemctl_is_active")
                       \o (CASE out = "ok" -> <<Msg("server_started")>>
                             [] out = "nonzero" -> <<Msg("server_start_failed")>>
                             [] OTHER -> <<>>))
        /\ pc' = Flow(SshCommand(FALSE, out),
                      IF out = "ok" THEN "ret" ELSE "except_exception")
    /\ UNCHANGED <<phaseVars, verifyVars, stopVars, endVars,
                   genVars, probeVars>>

\* lines 315-321: systemctl is-active over ssh (check=False); it prints
\* "active" and exits 0 exactly when the service is active.
StartStatus ==
    /\ pc = "ss_status"
    /\ \E out \in CmdOutcomes :
        /\ Allowed(out)
        /\ Record(out, CmdEvents("systemctl_is_active")
                       \o (CASE out = "ok" -> <<Msg("server_started")>>
                             [] out = "nonzero" -> <<Msg("server_start_failed")>>
                             [] OTHER -> <<>>))
        /\ pc' = Flow(SshCommand(FALSE, out),
                      IF out = "ok" THEN "ret" ELSE "ss_logs")
    /\ UNCHANGED <<phaseVars, verifyVars, stopVars, endVars,
                   genVars, probeVars>>

\* lines 322-325: journalctl -n 20 over ssh (check=False), then raise.
StartLogs ==
    /\ pc = "ss_logs"
    /\ \E out \in CmdOutcomes :
        /\ Allowed(out)
        /\ Record(out, CmdEvents("journalctl_n20"))
        /\ pc' = Flow(SshCommand(FALSE, out), "except_exception")
    /\ UNCHANGED <<phaseVars, verifyVars, stopVars, endVars,
                   genVars, probeVars>>

----------------------------------------------------------------------------
\* StartClients: start_clients (353-374) and start_client (327-351).

\* lines 358-361, 344: start_client(target): nohup ... & with check=False.
StartTarget ==
    SimpleCmd("sc_target", "start_target_client", FALSE, "sc_target_sleep")
\* line 350 in start_client(target): sleep(2).
StartTargetSettle == Sleep("sc_target_sleep", "2", <<>>, "sc_wait")

\* start_clients without the wait of line 364.
StartWait_NoSleep ==
    /\ pc = "sc_wait"
    /\ pc' = "sc_listen"
    /\ UNCHANGED <<phaseVars, recVars, verifyVars, stopVars, endVars,
                   genVars, probeVars>>

\* line 364: sleep(3).
StartWait == Sleep("sc_wait", "3", <<>>, "sc_listen")
\* lines 367-370, 344: start_client(listen).
StartListen ==
    SimpleCmd("sc_listen", "start_listen_client", FALSE, "sc_listen_sleep")
\* line 350 in start_client(listen): sleep(2).
StartListenSettle == Sleep("sc_listen_sleep", "2", <<>>, "sc_settle")
\* lines 373-374: sleep(5).
StartSettle == Sleep("sc_settle", "5", <<>>, "ret")

----------------------------------------------------------------------------
----------------------------------------------------------------------------
\* Verify: run_mysql_tests (429-450) and test_mysql_connection (376-427).

\* What fetchone() can give for 'SELECT 1 as test' through the tunnel: the
\* row (1,), or anything else.
ProbeRows == {"1", "other"}

\* Events of the verification phase.
Event(e, k) == [e |-> e, k |-> k]

\* The condition of line 445 without the "- 1".
NeedsCooldown_Always(n) == n < total_rounds

\* run_mysql_tests, line 445: a cooldown follows round i + 1.
NeedsCooldown(n) == n < total_rounds - 1

\* run_mysql_tests, line 435 and lines 449-450: next round, or all passed.
VerifyLoop ==
    /\ pc = "rm_loop"
    /\ IF i < total_rounds
       THEN /\ pc' = "vr_connect"
            /\ UNCHANGED testPassed
       ELSE /\ pc' = "ret"
            /\ testPassed' = "True"
    /\ UNCHANGED <<phaseVars, recVars, stopVars,
                   endVars, i, rounds, openConns, diagRuns, vlog, probeResult,
                   genVars, probeVars>>

\* test_mysql_connection, lines 380-393: pymysql.connect with timeouts.
RoundConnect ==
    /\ pc = "vr_connect"
    /\ \E out \in IoOutcomes :
        /\ Allowed(out)
        /\ Record(out, <<Db("connect")>>)
        /\ openConns' = IF out = "ok" THEN openConns \cup {i + 1}
                        ELSE openConns
        /\ pc' = CASE IoCall(out) = "return"            -> "vr_probe"
                   [] IoCall(out) = "Exception"         -> "vr_except"
                   [] IoCall(out) = "KeyboardInterrupt" -> "except_kbd"
    /\ vlog' = Append(vlog, Event("connect", i + 1))
    /\ UNCHANGED <<phaseVars, stopVars, endVars, i, rounds, testPassed,
                   diagRuns, probeResult,
                   genVars, probeVars>>

\* A statement on the open connection: the try block goes on, or control
\* goes to its except clause (423), or a KeyboardInterrupt leaves the function.
RoundStatement(at, next) ==
    /\ pc = at
    /\ \E out \in IoOutcomes :
        /\ Allowed(out)
        /\ Record(out, <<>>)
        /\ pc' = CASE IoCall(out) = "return"            -> next
                   [] IoCall(out) = "Exception"         -> "vr_except"
                   [] IoCall(out) = "KeyboardInterrupt" -> "except_kbd"
    /\ UNCHANGED <<phaseVars, stopVars, endVars, verifyVars,
                   genVars, probeVars>>

\* lines 395-400: SELECT 1, fetchone, log the row.
\* 'result' is logged and not compared with anything: whatever row comes
\* back, the round goes on to the configured query.
RoundProbe ==
    /\ pc = "vr_probe"
    /\ \E out \in IoOutcomes :
        /\ Allowed(out)
        /\ Record(out, <<>>)
        /\ probeResult' \in (IF out = "ok" THEN ProbeRows ELSE {probeResult})
        /\ pc' = CASE IoCall(out) = "return"            -> "vr_query"
                   [] IoCall(out) = "Exception"         -> "vr_except"
                   [] IoCall(out) = "KeyboardInterrupt" -> "except_kbd"
    /\ UNCHANGED <<phaseVars, stopVars, endVars, i, rounds, testPassed,
                   openConns, diagRuns, vlog,
                   genVars, probeVars>>

\* lines 402-416: the configured query, fetchall, log rows and size.
RoundQuery == RoundStatement("vr_query", "vr_close")

\* lines 418-421: cursor.close(), conn.close(), return True.  When
\* cursor.close() raises, conn.close() is not reached.
RoundClose ==
    /\ pc = "vr_close"
    /\ \E out \in IoOutcomes :
        /\ Allowed(out)
        /\ Record(out, <<>>)
        /\ openConns' = IF out = "ok" THEN openConns \ {i + 1} ELSE openConns
        /\ rounds' = IF out = "ok"
                     THEN Append(rounds, [num |-> i + 1, ok |-> TRUE])
                     ELSE rounds
        /\ pc' = CASE IoCall(out) = "return"            -> "rm_pass"
                   [] IoCall(out) = "Exception"         -> "vr_except"
                   [] IoCall(out) = "KeyboardInterrupt" -> "except_kbd"
    /\ UNCHANGED <<phaseVars, stopVars, endVars, i, testPassed, diagRuns,
                   vlog, probeResult,
                   genVars, probeVars>>

\* lines 423-427: except Exception: log, print the traceback, return False
\* (the frame and its 'result' are gone).
\* The handler does not close conn; whether the object is finalized (and its
\* socket closed) when the frame is dropped is up to the interpreter.
RoundExcept ==
    /\ pc = "vr_except"
    /\ probeResult' = "none"
    /\ \E finalized \in BOOLEAN :
        openConns' = IF finalized THEN openConns \ {i + 1} ELSE openConns
    /\ rounds' = Append(rounds, [num |-> i + 1, ok |-> FALSE])
    /\ pc' = "rm_fail"
    /\ UNCHANGED <<phaseVars, recVars, stopVars,
                   endVars, i, testPassed, diagRuns, vlog,
                   genVars, probeVars>>

\* run_mysql_tests, lines 436-437 and 445: the round passed.
RoundPassed ==
    /\ pc = "rm_pass"
    /\ probeResult' = "none"
    /\ vlog' = Append(vlog, Event("ok", i + 1))
    /\ IF NeedsCooldown(i)
       THEN /\ pc' = "vr_cooldown"
            /\ UNCHANGED i
       ELSE /\ pc' = "rm_loop"
            /\ i' = i + 1
    /\ UNCHANGED <<phaseVars, recVars, stopVars,
                   endVars, rounds, testPassed, openConns, diagRuns,
                   genVars, probeVars>>

\* run_mysql_tests, lines 446-447: sleep(5), then the next iteration.
Cooldown ==
    /\ pc = "vr_cooldown"
    /\ \E out \in SleepOutcomes :
        /\ Allowed(out)
        /\ Record(out, <<Slept("5")>>)
        /\ pc' = Flow(IoCall(out), "rm_loop")
        /\ vlog' = IF out = "ok" THEN Append(vlog, Event("cooldown", i + 1))
                   ELSE vlog
        /\ i' = IF out = "ok" THEN i + 1 ELSE i
    /\ UNCHANGED <<phaseVars, stopVars, endVars, rounds, testPassed,
                   openConns, diagRuns, probeResult,
                   genVars, probeVars>>

\* A failed round that is logged but does not end the loop.
RoundFailed_Continue ==
    /\ pc = "rm_fail"
    /\ vlog' = Append(vlog, Event("fail", i + 1))
    /\ i' = i + 1
    /\ pc' = "rm_loop"
    /\ UNCHANGED <<phaseVars, recVars, stopVars,
                   endVars, rounds, testPassed, openConns, diagRuns, probeResult,
                   genVars, probeVars>>

\* A failed round that returns False without calling show_logs.
RoundFailed_NoLogs ==
    /\ pc = "rm_fail"
    /\ vlog' = Append(vlog, Event("fail", i + 1))
    /\ pc' = "rm_return"
    /\ UNCHANGED <<phaseVars, recVars, stopVars,
                   endVars, i, rounds, testPassed, openConns, diagRuns, probeResult,
                   genVars, probeVars>>

\* run_mysql_tests, lines 438-441: the round failed; call show_logs.
RoundFailed ==
    /\ pc = "rm_fail"
    /\ vlog' = vlog \o <<Event("fail", i + 1), Event("show_logs", i + 1)>>
    /\ diagRuns' = diagRuns + 1
    /\ pc' = "sl_server"
    /\ UNCHANGED <<phaseVars, recVars, stopVars,
                   endVars, i, rounds, testPassed, openConns, probeResult,
                   genVars, probeVars>>

\* run_mysql_tests that goes on with the next round after show_logs.
VerifyFailed_Continue ==
    /\ pc = "rm_return"
    /\ i' = i + 1
    /\ pc' = "rm_loop"
    /\ UNCHANGED <<phaseVars, recVars, stopVars,
                   endVars, testPassed, rounds, openConns, diagRuns, vlog,
                   probeResult, genVars, probeVars>>

\* run_mysql_tests, line 442: return False after show_logs returned.
VerifyFailed ==
    /\ pc = "rm_return"
    /\ testPassed' = "False"
    /\ pc' = "ret"
    /\ UNCHANGED <<phaseVars, recVars, stopVars,
                   endVars, i, rounds, openConns, diagRuns, vlog, probeResult,
                   genVars, probeVars>>

----------------------------------------------------------------------------
\* show_logs (452-494).

\* lines 456-462: section line, then journalctl over ssh (check=False)
\* inside try / bare except: the bare except catches TimeoutExpired and
\* KeyboardInterrupt alike, logs a warning and show_logs goes on.
ShowServerLogs ==
    /\ pc = "sl_server"
    /\ \E out \in CmdOutcomes :
        /\ Allowed(out)
        /\ RecordOutcome(out)
    /\ trace' = CmdEvents("journalctl_n20")
    /\ pc' = "sl_listen_log"
    /\ UNCHANGED <<phaseVars, verifyVars, stopVars, endVars,
                   genVars, probeVars>>

\* One client log file: section line; if the file exists, tail or cat it
\* with check=False; otherwise log that it is missing.
ShowFile(at, name, next) ==
    /\ pc = at
    /\ \/ /\ pc' = next
          /\ trace' = <<>>
          /\ UNCHANGED <<failedIn, interrupts, invokedAtInt, orphans>>
       \/ \E out \in CmdOutcomes :
            /\ Allowed(out)
            /\ RecordOutcome(out)
            /\ trace' = CmdEvents(name)
            /\ pc' = Flow(RunCommand(FALSE, out), next)
    /\ UNCHANGED <<phaseVars, verifyVars, stopVars, endVars,
                   genVars, probeVars>>

\* lines 465-470, 473-478, 481-486, 489-494.
ShowListenLog == ShowFile("sl_listen_log", "tail_listen_log", "sl_listen_err")
ShowListenErr == ShowFile("sl_listen_err", "cat_listen_err", "sl_target_log")
ShowTargetLog == ShowFile("sl_target_log", "tail_target_log", "sl_target_err")
ShowTargetErr == ShowFile("sl_target_err", "cat_target_err", "rm_return")

----------------------------------------------------------------------------
Next ==
    \/ LoadConfig \/ MainInvoke \/ PhaseReturn \/ Report
    \/ ExceptKeyboardInterrupt \/ ExceptException
    \/ StopGraceful \/ StopForceKill \/ StopForceKillSettle \/ StopPgrep
    \/ StopKillAgain \/ StopKillAgainSettle \/ StopLocalPkill
    \/ StopLocalPkillSettle \/ StopLocalPgrep \/ StopLocalKillAgain
    \/ StopLocalKillAgainSettle
    \/ BuildServer \/ BuildClient
    \/ DeployScp \/ DeployChmod \/ DeployListen \/ DeployTarget
    \/ GenerateListen \/ GenerateTarget
    \/ StartServer \/ StartServerSettle \/ StartStatus \/ StartLogs
    \/ StartTarget \/ StartTargetSettle \/ StartWait \/ StartListen
    \/ StartListenSettle \/ StartSettle
    \/ VerifyLoop \/ RoundConnect \/ RoundProbe \/ RoundQuery \/ RoundClose
    \/ RoundExcept \/ RoundPassed \/ Cooldown \/ RoundFailed \/ VerifyFailed
    \/ ShowServerLogs \/ ShowListenLog \/ ShowListenErr \/ ShowTargetLog
    \/ ShowTargetErr

Spec == Init /\ [][Next]_vars

\* Every step of the script is taken by the one interpreter thread, which
\* is never descheduled for ever: a step that can be taken is taken.
FairSpec == Spec /\ WF_vars(Next)

----------------------------------------------------------------------------
\* The two generators of client configuration files run on their own, on
\* any configuration and over files of any earlier content.

\* Calls of generate_client_config per role.
MaxWrites == 2
\* Content of client-config.yaml before the first call.
PriorContents == {"", "# written by hand\n"}

\* Nothing of the orchestrator has run.
AtRest ==
    /\ idx = 1
    /\ exitCode = Running
    /\ invoked = <<>>
    /\ active = {}
    /\ returned = {}
    /\ raisedIn = "none"
    /\ failedIn = {}
    /\ interrupts = 0
    /\ invokedAtInt = <<>>
    /\ orphans = FALSE
    /\ trace = <<>>
    /\ elapsedReported = FALSE
    /\ i = 0
    /\ rounds = <<>>
    /\ testPassed = "none"
    /\ openConns = {}
    /\ diagRuns = 0
    /\ vlog = <<>>
    /\ probeResult = "none"
    /\ oldServer = FALSE
    /\ oldClients = FALSE
    /\ hadServer = FALSE
    /\ hadClients = FALSE
    /\ stopOk = "none"
    /\ result = FALSE

GenInit ==
    /\ pc = "gen"
    /\ AtRest
    /\ cfg \in Configs
    /\ files \in [Roles -> [content : PriorContents, by : {<<>>}]]
    /\ small_ok = "none"
    /\ large_ok = "none"

\* integration_test.py, generate_configs (278-304): one role's call.
OrchestratorGenerate(role) ==
    /\ pc = "gen"
    /\ Len(files[role].by) < MaxWrites
    /\ \E out \in {"ok", "error"} :
        files' = [files EXCEPT ![role] =
            Generated(@, ConfigContent(cfg[role].id, cfg[role].secret,
                                       cfg.addr, cfg.port),
                      "orchestrator", out)]
    /\ UNCHANGED <<pc, phaseVars, recVars, verifyVars, stopVars, endVars, cfg, probeVars>>

\* generate_configs.py, main (37-67): one role's call.
StandaloneGenerate(role) ==
    /\ pc = "gen"
    /\ Len(files[role].by) < MaxWrites
    /\ \E out \in {"ok", "error"} :
        files' = [files EXCEPT ![role] =
            Generated(@, StandaloneConfigContent(cfg[role].id, cfg[role].secret,
                                                 cfg.addr, cfg.port),
                      "standalone", out)]
    /\ UNCHANGED <<pc, phaseVars, recVars, verifyVars, stopVars, endVars, cfg, probeVars>>

OrchestratorListen == OrchestratorGenerate("listen")
OrchestratorTarget == OrchestratorGenerate("target")
StandaloneListen == StandaloneGenerate("listen")
StandaloneTarget == StandaloneGenerate("target")

GenNext ==
    \/ OrchestratorListen \/ OrchestratorTarget
    \/ StandaloneListen \/ StandaloneTarget

GenSpec == GenInit /\ [][GenNext]_vars

----------------------------------------------------------------------------
\* test_mysql_large.py: the two-step packet probe, a program of its own.

\* Outcomes of a pymysql call made while the alarm is armed: it returns, it
\* raises an error, the SIGALRM handler raises TimeoutError, or SIGINT.
ProbeOutcomes == {"ok", "error", "alarm", "interrupt"}

ProbeInit ==
    /\ pc = "pm_small"
    /\ AtRest
    /\ cfg = DefaultConfig
    /\ files = NoFiles
    /\ small_ok = "none"
    /\ large_ok = "none"

\* Variables the probe program leaves alone.
probeIdle ==
    <<phaseVars, raisedIn, failedIn, invokedAtInt, orphans, elapsedReported,
      verifyVars, stopVars, genVars>>

\* One pymysql call inside the try block of a test function: control goes
\* on, or to the except clause that matches; a KeyboardInterrupt is caught
\* nowhere.
ProbeCall(at, name, next, onTimeout, onError) ==
    /\ pc = at
    /\ \E out \in ProbeOutcomes :
        /\ Allowed(out)
        /\ interrupts' = IF out = "interrupt" THEN interrupts + 1
                         ELSE interrupts
        /\ trace' = Append(trace, Db(name))
        /\ pc' = CASE out = "ok"        -> next
                   [] out = "alarm"     -> onTimeout
                   [] out = "error"     -> onError
                   [] out = "interrupt" -> "pm_killed"
    /\ UNCHANGED <<probeIdle, exitCode, small_ok, large_ok>>

\* test_mysql_small, lines 18-34.
SmallConnect ==
    ProbeCall("ps_connect", "small_connect", "ps_execute",
              "ps_timeout", "ps_error")
SmallExecute ==
    ProbeCall("ps_execute", "small_execute", "ps_fetch",
              "ps_timeout", "ps_error")
SmallFetch ==
    ProbeCall("ps_fetch", "small_fetch", "ps_cursor_close",
              "ps_timeout", "ps_error")
\* lines 37-38.
SmallCursorClose ==
    ProbeCall("ps_cursor_close", "small_cursor_close", "ps_conn_close",
              "ps_timeout", "ps_error")
SmallConnClose ==
    ProbeCall("ps_conn_close", "small_conn_close", "ps_return",
              "ps_timeout", "ps_error")

\* A test function returns: 'value' is assigned in __main__.
ProbeReturn(at, msg, small, large, next) ==
    /\ pc = at
    /\ trace' = Append(trace, Msg(msg))
    /\ small_ok' = small
    /\ large_ok' = large
    /\ pc' = next
    /\ UNCHANGED <<probeIdle, exitCode, interrupts>>

\* lines 39-40, 41-44, 45-48: alarm(0) and return.
SmallPassed ==
    ProbeReturn("ps_return", "small_success", "True", large_ok, "pm_branch")
SmallTimeout ==
    ProbeReturn("ps_timeout", "small_timeout", "False", large_ok, "pm_branch")
SmallError ==
    ProbeReturn("ps_error", "small_error", "False", large_ok, "pm_branch")

\* __main__, line 96: call test_mysql_small.
ProbeStart ==
    /\ pc = "pm_small"
    /\ pc' = "ps_connect"
    /\ UNCHANGED <<probeIdle, exitCode, interrupts, trace, small_ok, large_ok>>

\* __main__ without the check of lines 98-102: the large test always runs.
ProbeBranch_NoSkip ==
    /\ pc = "pm_branch"
    /\ pc' = "pm_sleep"
    /\ UNCHANGED <<probeIdle, exitCode, interrupts, trace, small_ok, large_ok>>

\* __main__, lines 98-102: the small test failed: exit 1.
ProbeBranch ==
    /\ pc = "pm_branch"
    /\ IF small_ok # "True"
       THEN /\ exitCode' = EXIT_FAIL
            /\ pc' = "done"
       ELSE /\ pc' = "pm_sleep"
            /\ UNCHANGED exitCode
    /\ UNCHANGED <<probeIdle, interrupts, trace, small_ok, large_ok>>

\* __main__, line 105: sleep(2); no alarm is armed.
ProbeDelay ==
    /\ pc = "pm_sleep"
    /\ \E out \in SleepOutcomes :
        /\ Allowed(out)
        /\ interrupts' = IF out = "interrupt" THEN interrupts + 1
                         ELSE interrupts
        /\ trace' = Append(trace, Slept("2"))
        /\ pc' = IF out = "ok" THEN "pl_connect" ELSE "pm_killed"
    /\ UNCHANGED <<probeIdle, exitCode, small_ok, large_ok>>

\* test_mysql_large, lines 56-72.
LargeConnect ==
    ProbeCall("pl_connect", "large_connect", "pl_execute",
              "pl_timeout", "pl_error")
LargeExecute ==
    ProbeCall("pl_execute", "large_execute", "pl_fetch",
              "pl_timeout", "pl_error")
LargeFetch ==
    ProbeCall("pl_fetch", "large_fetch", "pl_cursor_close",
              "pl_timeout", "pl_error")
\* lines 75-76.
LargeCursorClose ==
    ProbeCall("pl_cursor_close", "large_cursor_close", "pl_conn_close",
              "pl_timeout", "pl_error")
LargeConnClose ==
    ProbeCall("pl_conn_close", "large_conn_close", "pl_return",
              "pl_timeout", "pl_error")

\* lines 77-78, 79-82, 83-88: alarm(0) and return.
LargePassed ==
    ProbeReturn("pl_return", "large_success", small_ok, "True", "pm_report")
LargeTimeout ==
    ProbeReturn("pl_timeout", "large_timeout", small_ok, "False", "pm_report")
LargeError ==
    ProbeReturn("pl_error", "large_error", small_ok, "False", "pm_report")

\* __main__, lines 108-118: exit 0 when both passed, else exit 1.
ProbeReport ==
    /\ pc = "pm_report"
    /\ exitCode' = IF small_ok = "True" /\ large_ok = "True"
                   THEN EXIT_OK ELSE EXIT_FAIL
    /\ pc' = "done"
    /\ UNCHANGED <<probeIdle, interrupts, trace, small_ok, large_ok>>

\* A KeyboardInterrupt nobody catches ends the interpreter: it exits with
\* status 1, or re-raises SIGINT and the status is 130, depending on the
\* version of the interpreter.
ProbeKilled ==
    /\ pc = "pm_killed"
    /\ exitCode' \in {EXIT_FAIL, EXIT_INTERRUPT}
    /\ pc' = "done"
    /\ UNCHANGED <<probeIdle, interrupts, trace, small_ok, large_ok>>

ProbeNext ==
    \/ ProbeStart \/ SmallConnect \/ SmallExecute \/ SmallFetch
    \/ SmallCursorClose \/ SmallConnClose \/ SmallPassed \/ SmallTimeout
    \/ SmallError \/ ProbeBranch \/ ProbeDelay
    \/ LargeConnect \/ LargeExecute \/ LargeFetch \/ LargeCursorClose
    \/ LargeConnClose \/ LargePassed \/ LargeTimeout \/ LargeError
    \/ ProbeReport \/ ProbeKilled

ProbeSpec == ProbeInit /\ [][ProbeNext]_vars

----------------------------------------------------------------------------
\* Properties.

Done == pc = "done"
Last(q) == q[Len(q)]
\* The connection attempts of the verification phase, in order.
Connects == SelectSeq(vlog, LAMBDA ev : ev.e = "connect")
Cooldowns == SelectSeq(vlog, LAMBDA ev : ev.e = "cooldown")
SomeRoundFailed == \E n \in 1..Len(rounds) : ~rounds[n].ok

\* C1: phases are invoked only in the order StopProcesses, Build,
\* DeployServer, DeployClients, GenerateConfigs, StartService, StartClients,
\* Verify, Report; a phase is invoked only after every earlier one was
\* invoked and returned, none twice, and at most one is active at a time.
C1_PhaseOrder ==
    LET expected == <<"StopProcesses", "Build", "DeployServer",
                      "DeployClients", "GenerateConfigs", "StartService",
                      "StartClients", "Verify", "Report">>
    IN  /\ Len(invoked) <= 9
        /\ \A n \in 1..Len(invoked) : invoked[n] = expected[n]
        /\ \A n \in 1..(Len(invoked) - 1) : invoked[n] \in returned
        /\ Cardinality(active) <= 1
        /\ active # {} => active = {Last(invoked)}
        /\ active \cap returned = {}

C1_Witness == Done /\ exitCode = 0 /\ Len(invoked) = 9 /\ "Report" \in returned

\* C2: a phase before Verify that raises is the last phase invoked and the
\* run ends with exit code 1; a failed command of Build, DeployServer,
\* DeployClients, GenerateConfigs or StartService ends the pipeline in that
\* phase (after a failed Build no later phase is invoked).
C2_FailFast ==
    LET before == {"StopProcesses", "Build", "DeployServer", "DeployClients",
                   "GenerateConfigs", "StartService", "StartClients"}
        checked == {"Build", "DeployServer", "DeployClients",
                    "GenerateConfigs", "StartService"}
    IN  /\ raisedIn \in before =>
              /\ Last(invoked) = raisedIn
              /\ raisedIn \notin returned
              /\ Done /\ exitCode = 1
        /\ \A p \in failedIn \cap checked :
              /\ Last(invoked) = p
              /\ p \notin returned
              /\ Done /\ interrupts = 0 => exitCode = 1
        /\ "Build" \in failedIn =>
              /\ invoked = <<"StopProcesses", "Build">>
              /\ Done => exitCode # 0

C2_Witness ==
    /\ Done /\ raisedIn = "Build" /\ "Build" \in failedIn
    /\ exitCode = 1 /\ invoked = <<"StopProcesses", "Build">>

\* C3 (as claimed): exit code 0 exactly when all phases succeeded and all 3
\* rounds succeeded, an Exception or a failed round never gives 0, and exit
\* code 0 is never produced by a run in which a phase's operation failed:
\* here the forced kill of the stop phase, whose failure
\* stop_service_with_timeout reports by returning False.
C3_ExitZeroOnlyWithoutFailure ==
    Done =>
        /\ exitCode = 0 <=>
              /\ returned = {PhaseOrder[n] : n \in 1..9}
              /\ Len(rounds) = 3
              /\ \A n \in 1..3 : rounds[n].ok
        /\ raisedIn # "none" \/ SomeRoundFailed => exitCode # 0
        /\ exitCode = 0 => stopOk # "False"

\* C4 (as claimed): a run in which the user delivered an interrupt ends with
\* exit code 130 and invokes no phase after the interrupt.
C4_InterruptReported ==
    Done /\ interrupts > 0 =>
        /\ exitCode = 130
        /\ invoked = invokedAtInt

\* C5 (as claimed): every run has reported the elapsed time when it exits.
C5_ElapsedAlwaysReported == Done => elapsedReported

\* C5 (amended): the elapsed time is reported exactly by the runs in which
\* the verification phase returned (passed or failed); a run ended by an
\* Exception or by an interrupt exits without reporting it.
C5_ElapsedIffVerifyReturned ==
    /\ elapsedReported => Done /\ exitCode \in {0, 1}
    /\ Done => (elapsedReported <=> "Verify" \in returned)
    /\ Done /\ (raisedIn # "none" \/ exitCode = 130) => ~elapsedReported

C5_Witness ==
    Done /\ elapsedReported /\ exitCode = 1 /\ testPassed = "False"

\* C6: when round k fails, rounds k+1..3 are never attempted, round k is not
\* retried, and the number of rounds attempted is k.
C6_StopAtFirstFailure ==
    /\ \A n \in 1..Len(Connects) : Connects[n].k = n
    /\ \A n \in 1..Len(rounds) :
          /\ rounds[n].num = n
          /\ ~rounds[n].ok => Len(rounds) = n /\ Len(Connects) = n

C6_Witness ==
    Done /\ Len(rounds) = 2 /\ rounds[1].ok /\ ~rounds[2].ok

\* C7: the verification phase reports success only after exactly 3 rounds
\* were attempted in order 1, 2, 3 and each of them succeeded.
C7_SuccessNeedsAllRounds ==
    testPassed = "True" \/ exitCode = 0 =>
        /\ rounds = [n \in 1..3 |-> [num |-> n, ok |-> TRUE]]
        /\ Connects = [n \in 1..3 |-> Event("connect", n)]

C7_Witness == Done /\ testPassed = "True" /\ exitCode = 0

\* C8: when a round fails, show_logs is called right after that round (no
\* further round is attempted) and before the run exits, and the run exits
\* with code 1 (130 only if the user interrupted the diagnostics).
C8_DiagnosticsOnFailure ==
    /\ \A n \in 1..Len(vlog) : vlog[n].e = "fail" =>
          /\ n < Len(vlog)
          /\ vlog[n + 1] = Event("show_logs", vlog[n].k)
          /\ Len(vlog) = n + 1
    /\ SomeRoundFailed /\ pc \in {"rm_return", "ret", "main", "report", "done"} =>
          /\ diagRuns = 1
          /\ Last(vlog).e = "show_logs"
    /\ SomeRoundFailed /\ Done =>
          /\ exitCode # 0
          /\ interrupts = 0 => exitCode = 1

C8_Witness ==
    /\ Done /\ exitCode = 1 /\ interrupts = 0 /\ diagRuns = 1
    /\ Len(rounds) = 2 /\ ~rounds[2].ok /\ Len(Connects) = 2

\* C9: a connection for round k+1 is opened only after the one cooldown that
\* follows the success of round k, and no cooldown follows round 3 or a
\* failed round.
C9_CooldownBetweenRounds ==
    \A n \in 1..Len(vlog) :
        /\ vlog[n].e = "connect" /\ vlog[n].k > 1 =>
              /\ n > 2
              /\ vlog[n - 1] = Event("cooldown", vlog[n].k - 1)
              /\ vlog[n - 2] = Event("ok", vlog[n].k - 1)
        /\ vlog[n].e = "cooldown" =>
              /\ n > 1
              /\ vlog[n - 1] = Event("ok", vlog[n].k)
              /\ vlog[n].k < 3

C9_Witness ==
    Done /\ testPassed = "True" /\ Len(Cooldowns) = 2 /\ Len(Connects) = 3

\* C10 (as claimed): when a round starts, when show_logs starts and when the
\* run exits, no connection opened by an earlier round is still open (stated
\* for the runs the user does not interrupt).
C10_ConnectionsClosed ==
    interrupts = 0 /\ pc \in {"vr_connect", "sl_server", "done"} =>
        openConns = {}

----------------------------------------------------------------------------
\* Properties of the stop escalation, the command runner, the service
\* launcher and the verification probe.

Range(q) == {q[n] : n \in 1..Len(q)}
\* Positions of the trace that hold event ev.
Positions(ev) == {n \in 1..Len(trace) : trace[n] = ev}
Count(ev) == Cardinality(Positions(ev))
\* Every occurrence of a comes before every occurrence of b.
Before(a, b) == \A m \in Positions(a), n \in Positions(b) : m < n

\* C11: a round is counted as a success only when its probe 'SELECT 1'
\* returned the expected literal 1; a round whose probe returned anything
\* else is a failed round.
C11_ProbeConfirmed ==
    (pc = "rm_pass" /\ Last(rounds) = [num |-> i + 1, ok |-> TRUE])
        => probeResult = "1"

\* The trace is that of the stop phase.
InStop == invoked = <<"StopProcesses">>
\* The trace has 'evs' right after position n; or it ends at n and the
\* script stands at 'at', about to produce them.
Follows(n, evs, at) ==
    \/ n = Len(trace) /\ pc = at
    \/ /\ Len(trace) >= n + Len(evs)
       /\ SubSeq(trace, n + 1, n + Len(evs)) = evs
\* The remote commands of the stop phase.
Graceful == DirectEvents("systemctl_stop")
ForcedKill == CmdEvents("pkill9_remote")
PresenceQuery == CmdEvents("pgrep_remote")

\* C12: the remote stop escalates in order.  The graceful stop comes first;
\* when it has not finished within its timeout a forced kill by name
\* follows; after either path comes one presence query; when the query
\* finds a matching process a second forced kill and then a settle delay
\* follow, and otherwise no further kill.  A graceful timeout followed by a
\* successful forced kill and a query that finds nothing makes the remote
\* stop report success and go on.
C12_StopEscalation ==
    InStop /\ trace # <<>> =>
        /\ SubSeq(trace, 1, 2) = Graceful
        /\ Count(Exec("systemctl_stop")) = 1
        /\ Count(Exec("pgrep_remote")) <= 1
        /\ \A n \in 1..Len(trace) :
            /\ trace[n] = Msg("graceful_timeout")
                 => n = 3 /\ Follows(n, ForcedKill, "sp_forcekill")
            /\ trace[n] = Exec("pkill9_remote") /\ n = 5
                 => \/ n = Len(trace)
                    \/ Follows(n, <<Slept("1")>>, "sp_forcekill_sleep")
                    \/ Follows(n, <<Msg("force_stop_failed")>>, "none")
            /\ trace[n] \in {Msg("graceful_stopped"), Msg("force_stopped"),
                             Msg("force_stop_failed")}
                 => Follows(n, PresenceQuery, "sp_pgrep")
            /\ trace[n] = Exec("pgrep_remote")
                 => \A m \in Positions(Exec("pkill9_remote")) :
                        m = 5 \/ (m = n + 3 /\ trace[n + 1] = Msg("remote_leftover"))
            /\ trace[n] = Msg("remote_leftover")
                 => /\ trace[n - 1] = Exec("pgrep_remote")
                    /\ Follows(n, ForcedKill, "sp_kill2")
                    /\ Len(trace) > n + 2 => trace[n + 3] = Slept("1")
            /\ trace[n] = Msg("force_stopped")
               /\ Follows(n, PresenceQuery \o <<Msg("remote_stopped")>>, "none")
                 => /\ stopOk = "True"
                    /\ Count(Exec("pkill9_remote")) = 1
                    /\ Follows(n + 3, CmdEvents("pkill_local"), "sp_local_pkill")

\* The graceful stop timed out, the forced kill went through, the presence
\* query found nothing, and the script went on to the local clients.
C12_Witness ==
    /\ InStop
    /\ pc = "sp_local_pkill"
    /\ stopOk = "True"
    /\ trace = Graceful \o <<Msg("graceful_timeout")>> \o ForcedKill
               \o <<Slept("1"), Msg("force_stopped")>> \o PresenceQuery
               \o <<Msg("remote_stopped")>>

\* The forced kills of the stop phase.
ForcedKills == {Exec("pkill9_remote"), Exec("pkill9_local")}

\* C13: when neither a remote server process nor a local client process of
\* an earlier run exists and every command of the stop phase completes, the
\* stop phase invokes no forced kill and does not abort the pipeline.
C13_StopIdempotent ==
    InStop /\ ~hadServer /\ ~hadClients /\ failedIn = {} /\ interrupts = 0
        => /\ ForcedKills \cap Range(trace) = {}
           /\ pc # "except_exception"

\* C14: whenever Build is invoked, no matching process of an earlier run
\* remains, neither the remote server nor a local client.
C14_BuildOnlyWhenStopped ==
    "Build" \in Range(invoked) => ~oldServer /\ ~oldClients

\* The external calls of the stop phase, one per call site of
\* stop_service_with_timeout and stop_processes.
StopCalls ==
    {Exec("systemctl_stop"), Exec("pkill9_remote"), Exec("pgrep_remote"),
     Exec("pkill_local"), Exec("pgrep_local"), Exec("pkill9_local"),
     Slept("1"), Slept("2")}
\* Number of call sites: two remote forced kills, three sleeps of 1 s.
StopCallSites == Cardinality(StopCalls) + 1 + 2

\* C15: the stop escalation always terminates.  Once the stop phase has
\* been entered it is eventually left, even when the graceful stop hangs
\* until its timeout, and it makes no more external calls than it has call
\* sites: no call is repeated.
C15_StopTerminates ==
    /\ [](InStop =>
            Cardinality({n \in 1..Len(trace) : trace[n] \in StopCalls})
                <= StopCallSites)
    /\ ("StopProcesses" \in active) ~> ("StopProcesses" \notin active)

\* The graceful stop ran into its timeout and the stop phase returned.
C15_Witness ==
    /\ InStop
    /\ "StopProcesses" \in returned
    /\ Msg("graceful_timeout") \in Range(trace)

\* C16: after a command has exceeded its timeout nothing of it is still
\* running, neither the shell nor any child of the shell.
C16_TimeoutKillsGroup == ~orphans

\* C17: every external command started is directly preceded by a log line
\* that carries the text of that command.
C17_CommandLogged ==
    \A n \in 1..Len(trace) :
        trace[n].k = "exec" => n > 1 /\ trace[n - 1] = LogCmd(trace[n].what)

\* C18: every run terminates, whatever external calls hang until their
\* timeouts, and it terminates with exit code 0, 1 or 130.
C18_RunTerminates ==
    /\ <>Done
    /\ [](Done => exitCode \in {EXIT_OK, EXIT_FAIL, EXIT_INTERRUPT})

\* A run in which the graceful stop hung until its timeout and a later
\* command of the stop phase failed has ended with exit code 1.
C18_Witness ==
    /\ Done
    /\ InStop
    /\ Msg("graceful_timeout") \in Range(trace)
    /\ exitCode = EXIT_FAIL

\* The trace is that of the phase p.
InPhase(p) == invoked # <<>> /\ Last(invoked) = p
\* What start_server does up to and including the status poll.
StartAndPoll ==
    CmdEvents("systemctl_start") \o <<Slept("3")>>
        \o CmdEvents("systemctl_is_active")

\* C19: the service launcher issues the start, waits the settle delay and
\* polls the status exactly once.  When the status is not "active" the last
\* 20 lines of the supervisor log are pulled before the failure is raised;
\* StartClients and Verify are then never invoked and a run that is not
\* interrupted exits with code 1.
C19_StartPolledOnce ==
    /\ InPhase("StartService") =>
        /\ Count(Exec("systemctl_is_active")) <= 1
        /\ \A n \in 1..Len(trace) :
            /\ trace[n] = Exec("systemctl_is_active")
                 => SubSeq(trace, 1, n) = StartAndPoll
            /\ trace[n] = Msg("server_start_failed")
                 => /\ trace[n - 1] = Exec("systemctl_is_active")
                    /\ Follows(n, CmdEvents("journalctl_n20"), "ss_logs")
                    /\ "StartService" \notin returned
                    /\ Done /\ interrupts = 0
                         => exitCode = EXIT_FAIL /\ raisedIn = "StartService"
        /\ "StartService" \in returned
             => trace = StartAndPoll \o <<Msg("server_started")>>
    /\ {"StartClients", "Verify"} \cap Range(invoked) # {}
         => "StartService" \in returned

\* The status was not "active", the log lines were pulled and the run ended
\* with exit code 1 without invoking StartClients.
C19_Witness ==
    /\ Done
    /\ InPhase("StartService")
    /\ trace = StartAndPoll \o <<Msg("server_start_failed")>>
               \o CmdEvents("journalctl_n20")
    /\ exitCode = EXIT_FAIL
    /\ raisedIn = "StartService"

\* q is an initial part of r.
IsPrefix(q, r) == Len(q) <= Len(r) /\ SubSeq(r, 1, Len(q)) = q
\* What start_clients does, in order.
LaunchBoth ==
    CmdEvents("start_target_client") \o <<Slept("2"), Slept("3")>>
        \o CmdEvents("start_listen_client") \o <<Slept("2"), Slept("5")>>

\* C20: StartClients launches the target and gives it a settle delay before
\* it launches the listener, and a further settle delay follows the launch
\* of both before the first verification round connects; the listener is
\* never launched before the target.
C20_TargetBeforeListener ==
    /\ InPhase("StartClients") =>
        /\ IsPrefix(trace, LaunchBoth)
        /\ "StartClients" \in returned => trace = LaunchBoth
    /\ vlog # <<>> => "StartClients" \in returned

\* Both clients were launched with their delays and the first round has
\* connected.
C20_Witness ==
    /\ "StartClients" \in returned
    /\ vlog = <<Event("connect", 1)>>
    /\ trace = <<Db("connect")>>

\* What client-config.yaml of role r holds after a generation from cfg.
Expected(r) == ConfigContent(cfg[r].id, cfg[r].secret, cfg.addr, cfg.port)

\* C21: the content a generator leaves in a role's file is a function of
\* the role's client id and secret key and of the server's address and port
\* alone: it is the same whatever the file held before, however often and
\* by whichever of the two generators it was written, and the standalone
\* script writes the same content as the orchestrator.
C21_ConfigIdempotent ==
    \A r \in Roles :
        /\ StandaloneConfigContent(cfg[r].id, cfg[r].secret, cfg.addr, cfg.port)
             = Expected(r)
        /\ "orchestrator" \in Range(files[r].by)
           \/ "standalone" \in Range(files[r].by)
             => files[r].content = Expected(r)

\* A file that held other content was written by the orchestrator and then
\* again by the standalone script.
C21_Witness ==
    /\ pc = "gen"
    /\ files["listen"].by = <<"orchestrator", "standalone">>
    /\ files["listen"].content = Expected("listen")
    /\ files["target"] = [content |-> "# written by hand\n", by |-> <<>>]

\* The commands that signal the local client processes, and the signal
\* each sends: pkill without a signal option sends SIGTERM (line 178),
\* pkill -9 sends SIGKILL (line 185).
LocalKills == {"pkill_local", "pkill9_local"}
Signal(cmd) == IF cmd = "pkill_local" THEN "TERM" ELSE "KILL"
\* Positions of the trace where a local kill command was started.
LocalKillAt ==
    {n \in 1..Len(trace) : trace[n].k = "exec" /\ trace[n].what \in LocalKills}

\* C22: the first signal the stop phase sends to the local client
\* processes is a forced kill (SIGKILL).
C22_LocalFirstSignalForced ==
    InStop /\ LocalKillAt # {} =>
        \A n \in LocalKillAt :
            (\A m \in LocalKillAt : n <= m) => Signal(trace[n].what) = "KILL"

\* The large-packet test has been attempted.
LargeAttempted == Db("large_connect") \in Range(trace)

\* C23: in the two-step packet probe the large-packet test is attempted only
\* after the small-packet test succeeded; when the small test failed the
\* large test is never run and the exit code is 1; exit code 0 is produced
\* only when both tests succeeded.
C23_LargeOnlyAfterSmall ==
    /\ pc \in {"pm_sleep", "pl_connect"} \/ LargeAttempted
         => small_ok = "True"
    /\ small_ok = "False" => ~LargeAttempted /\ large_ok = "none"
    /\ small_ok = "False" /\ Done => exitCode = EXIT_FAIL
    /\ exitCode = EXIT_OK => small_ok = "True" /\ large_ok = "True"

\* The small test failed and the probe has exited with code 1 without
\* attempting the large test.
C23_Witness ==
    /\ Done
    /\ small_ok = "False"
    /\ Msg("small_error") \in Range(trace)
    /\ ~LargeAttempted
    /\ exitCode = EXIT_FAIL

\* C24: in the remote stop a forced kill is issued only right after the
\* graceful stop timed out or right after the presence query printed
\* something.  A graceful stop that returns within the timeout with a
\* non-zero exit status is taken as a graceful stop: the function returns
\* True and the script goes on to the presence query, with no forced kill
\* and no failure.
C24_NonzeroGracefulAccepted ==
    InStop =>
        /\ \A n \in Positions(Exec("pkill9_remote")) :
               /\ n > 2
               /\ trace[n - 2] \in {Msg("graceful_timeout"),
                                    Msg("remote_leftover")}
        /\ Len(trace) = 3 /\ failedIn # {} /\ trace[3] # Msg("graceful_timeout")
             => /\ trace = Graceful \o <<Msg("graceful_stopped")>>
                /\ stopOk = "True"
                /\ pc = "sp_pgrep"

\* The graceful stop has returned with a non-zero exit status: it is logged
\* as done and the presence query is next.
C24_Witness ==
    /\ InStop
    /\ pc = "sp_pgrep"
    /\ failedIn = {"StopProcesses"}
    /\ trace = Graceful \o <<Msg("graceful_stopped")>>
    /\ stopOk = "True"

\* A step of the remote presence query from which the script goes on.
QueryReturned ==
    pc = "sp_pgrep" /\ pc' \notin {"except_exception", "except_kbd"}

\* C25: when the remote presence query fails with a non-zero exit status
\* and prints nothing, the stop phase takes it as "no process remains":
\* 'result' is empty, no second forced kill is issued, the remote stop is
\* logged as done and the script goes on to the local stop.
C25_FailedQueryMeansNone ==
    [][ /\ QueryReturned /\ failedIn = {} /\ failedIn' # {}
            => result' = FALSE
        /\ QueryReturned /\ result' = FALSE
            => /\ pc' = "sp_local_pkill"
               /\ trace' = trace \o PresenceQuery \o <<Msg("remote_stopped")>>
      ]_vars

\* An old server is still running, the presence query over the failing
\* secure channel printed nothing, the remote stop is logged as done and the
\* local stop is next.
C25_Witness ==
    /\ InStop
    /\ oldServer
    /\ pc = "sp_local_pkill"
    /\ trace = Graceful \o <<Msg("graceful_stopped")>> \o PresenceQuery
               \o <<Msg("remote_stopped")>>

\* C26: show_logs is called at most once in a run, and only after a
\* verification round has failed: never in a run whose rounds all passed
\* and never in a run that ended in a phase before Verify.
C26_DiagnosticsAtMostOnce ==
    /\ diagRuns <= 1
    /\ diagRuns > 0 =>
          /\ "Verify" \in Range(invoked)
          /\ SomeRoundFailed
          /\ ~Last(rounds).ok
    /\ testPassed = "True" => diagRuns = 0
    /\ "Verify" \notin Range(invoked) => diagRuns = 0
    /\ pc \in {"sl_server", "sl_listen_log", "sl_listen_err", "sl_target_log",
               "sl_target_err"} => diagRuns = 1 /\ ~Last(rounds).ok

\* The first round failed and show_logs has run through, once.
C26_Witness ==
    /\ pc = "rm_return"
    /\ diagRuns = 1
    /\ rounds = <<[num |-> 1, ok |-> FALSE]>>

====
